---- MODULE Spec2Model ----
(***************************************************************************)
(* Model of the blockstack.js storage engine (putFile / getFile /         *)
(* listFiles) and of the key helpers it relies on.                        *)
(*                                                                         *)
(* JavaScript values are modelled symbolically as tagged tuples:          *)
(*   <<"text", s>>                       a string that is not JSON        *)
(*   <<"bin", b>>                        a Buffer / ArrayBuffer           *)
(*   <<"json", o>>                       the string JSON.stringify(o)     *)
(*   <<"cipher", pub, content>>          an ECIES cipher object           *)
(*   <<"ecdsa", priv, data>>             an ECDSA signature (hex)         *)
(*   <<"sigobj", signature, publicKey>>  {signature, publicKey}           *)
(*   <<"signedcipher", sig, pub, ct>>    {signature, publicKey, cipherText}*)
(*   <<"pub", k>>, <<"addr", k>>         public key / address of key k    *)
(*   <<"undefined">>, <<"null">>         the JavaScript values            *)
(***************************************************************************)
EXTENDS Integers, Sequences, FiniteSets, TLC

\* ------------------------------------------------------------------ bounds
\* Number of putFile / getFile calls one behaviour starts.
MaxOps == 2
\* Number of times the hub's bucket is changed behind the caller's back.
MaxEnv == 1
\* Number of pages after which a well-behaved hub stops returning a cursor.
MaxPages == 3
\* Largest number of entries in one listing page.
MaxEntries == 2

\* ------------------------------------------------------- program constants
\* listFilesLoop gives up when its callCount exceeds this number.
MaxCallCount == 65536

SIGNATURE_FILE_SUFFIX == ".sig"

\* ------------------------------------------------------------------ values
Undefined == <<"undefined">>
Null == <<"null">>

\* The caller's app private key (userData.appPrivateKey) and a second key.
AppPrivateKey == "kA"
OtherKey == "kB"
PrivateKeys == {AppPrivateKey, OtherKey}

\* Payloads handed to putFile: a string, the empty string, a Buffer.
Contents == {<<"text", "hi">>, <<"text", "">>, <<"bin", "b1">>}

IsString(v) == v[1] \in {"text", "json"}

\* JavaScript truthiness of the values the storage code tests with `!x`.
Falsy(v) == v = Null \/ v = Undefined \/ v = <<"text", "">>

\* -------------------------------------------------------------------- keys
getPublicKeyFromPrivate(privateKey) == <<"pub", privateKey>>

\* hash160 + Base58Check, taken to be collision free. A publicKey that is
\* not a hex string makes `new Buffer(publicKey, 'hex')` throw.
publicKeyToAddressThrows(publicKey) == publicKey[1] # "pub"

publicKeyToAddress(publicKey) == <<"addr", publicKey[2]>>

\* --------------------------------------------------------------- encryption
encryptECIES(publicKey, content) == <<"cipher", publicKey, content>>

\* decryptECIES throws unless handed a cipher object made for this key.
decryptECIESThrows(privateKey, cipherObject) ==
    \/ cipherObject[1] # "cipher"
    \/ cipherObject[2] # getPublicKeyFromPrivate(privateKey)

decryptECIES(privateKey, cipherObject) == cipherObject[3]

\* Buffer.from(content): the bytes of a string (UTF-8) or of a buffer.
BufferFrom(content) ==
    IF content[1] \in {"bin", "utf8"} THEN content ELSE <<"utf8", content>>

\* signECDSA hashes the bytes of the content and returns {signature, publicKey}.
signECDSA(privateKey, content) ==
    <<"sigobj", <<"ecdsa", privateKey, BufferFrom(content)>>,
      getPublicKeyFromPrivate(privateKey)>>

verifyECDSA(content, publicKey, signature) ==
    /\ signature[1] = "ecdsa"
    /\ publicKey = getPublicKeyFromPrivate(signature[2])
    /\ signature[3] = BufferFrom(content)

\* --------------------------------------------------------------------- JSON
JSONstringify(obj) == <<"json", obj>>

\* JSON.parse throws a SyntaxError on a string that is not JSON.
JSONparseThrows(str) == str[1] # "json"

JSONparse(str) == str[2]

\* obj.signature, obj.publicKey, obj.cipherText of a parsed object. An ECIES
\* cipher object has a cipherText field of its own (the hex ciphertext).
FieldSignature(obj) ==
    IF obj[1] \in {"sigobj", "signedcipher"} THEN obj[2] ELSE Undefined

FieldPublicKey(obj) ==
    IF obj[1] \in {"sigobj", "signedcipher"} THEN obj[3] ELSE Undefined

FieldCipherText(obj) ==
    IF obj[1] = "signedcipher" THEN obj[4]
    ELSE IF obj[1] = "cipher" THEN <<"text", "hex">>
    ELSE Undefined

\* ---------------------------------------------------------------- results
\* The settlement of a promise: fulfilled with v, rejected with error e
\* (s is the HTTP status an error carries, 0 when it carries none).
\* c names the primitives (JSON.parse, publicKeyToAddress, verifyECDSA,
\* decryptECIES) that were invoked on the way to the settlement.
Pending == [t |-> "pending", v |-> Undefined, e |-> "-", s |-> 0, c |-> {}]
Ok(v) == [t |-> "ok", v |-> v, e |-> "-", s |-> 0, c |-> {}]
Err(e) == [t |-> "err", v |-> Undefined, e |-> e, s |-> 0, c |-> {}]
ErrStatus(e, status) == [t |-> "err", v |-> Undefined, e |-> e, s |-> status, c |-> {}]
Calling(calls, r) == [r EXCEPT !.c = @ \cup calls]

\* The error messages of the storage code.
ESigNoAddress == "SignatureVerificationError: Failed to get gaia address"
ESigNoSignature == "SignatureVerificationError: Failed to obtain signature"
ESigAddress == "SignatureVerificationError: Signer pubkey address doesn't match"
ESigECDSA == "SignatureVerificationError: Contents do not match ECDSA signature"
ESigNoData == "SignatureVerificationError: Failed to get signature verification data"
EParseSig == "Error: Failed to parse signature content JSON"
EParseEncrypted == "Error: Failed to parse encrypted content JSON"
EParseSignedEncrypted == "Error: Failed to parse encrypted, signed content JSON"
EHttp == "Error: getFile failed with HTTP status"
EGaiaAddress == "Error: Failed to parse gaia address"
ENotString == "Error: Expected to get back a string for the cipherText"
ETypeError == "TypeError"
EDecrypt == "Error: decryptECIES failed"
ENullReject == "null"
EUpload == "Error: upload failed"

\* ------------------------------------------------------------ content codec
\* encryptContentImpl: opt.publicKey defaults to the key of the caller.
encryptContentImpl(content, publicKey) ==
    LET pk == IF publicKey = Undefined
              THEN getPublicKeyFromPrivate(AppPrivateKey) ELSE publicKey
    IN  JSONstringify(encryptECIES(pk, content))

\* Mutant: the catch reports every error as a parse failure.
decryptContentImpl_CatchAll(content) ==
    IF JSONparseThrows(content) THEN Calling({"JSON.parse"}, Err(EParseEncrypted))
    ELSE Calling({"JSON.parse", "decryptECIES"},
                 IF decryptECIESThrows(AppPrivateKey, JSONparse(content))
                 THEN Err(EParseEncrypted)
                 ELSE Ok(decryptECIES(AppPrivateKey, JSONparse(content))))

\* decryptContentImpl: opt.privateKey defaults to the key of the caller.
decryptContentImpl(content) ==
    IF JSONparseThrows(content) THEN Calling({"JSON.parse"}, Err(EParseEncrypted))
    ELSE Calling({"JSON.parse", "decryptECIES"},
                 IF decryptECIESThrows(AppPrivateKey, JSONparse(content))
                 THEN Err(EDecrypt)
                 ELSE Ok(decryptECIES(AppPrivateKey, JSONparse(content))))

\* ------------------------------------------------------------ get handlers
\* Mutant: the test for a missing signature file is left out.
SignedUnencryptedHandler_NoSignatureTest(fileContents, signatureContents, gaiaAddress) ==
    IF Falsy(fileContents) THEN Ok(fileContents)
    ELSE IF Falsy(gaiaAddress) THEN Err(ESigNoAddress)
    ELSE IF JSONparseThrows(signatureContents)
         THEN Calling({"JSON.parse"}, Err(EParseSig))
    ELSE LET sigObject == JSONparse(signatureContents)
             signature == FieldSignature(sigObject)
             publicKey == FieldPublicKey(sigObject)
             addressCalls == {"JSON.parse", "publicKeyToAddress"}
             verifyCalls == addressCalls \cup {"verifyECDSA"}
         IN  IF publicKeyToAddressThrows(publicKey)
                  THEN Calling(addressCalls, Err(ETypeError))
             ELSE IF gaiaAddress # publicKeyToAddress(publicKey)
                  THEN Calling(addressCalls, Err(ESigAddress))
             ELSE IF ~verifyECDSA(BufferFrom(fileContents), publicKey, signature)
                  THEN Calling(verifyCalls, Err(ESigECDSA))
             ELSE Calling(verifyCalls, Ok(fileContents))

\* The .then handler of getFileSignedUnencrypted, run on the three joined
\* results.
SignedUnencryptedHandler(fileContents, signatureContents, gaiaAddress) ==
    IF Falsy(fileContents) THEN Ok(fileContents)
    ELSE IF Falsy(gaiaAddress) THEN Err(ESigNoAddress)
    ELSE IF Falsy(signatureContents) \/ ~IsString(signatureContents)
         THEN Err(ESigNoSignature)
    ELSE IF JSONparseThrows(signatureContents)
         THEN Calling({"JSON.parse"}, Err(EParseSig))
    ELSE LET sigObject == JSONparse(signatureContents)
             signature == FieldSignature(sigObject)
             publicKey == FieldPublicKey(sigObject)
             addressCalls == {"JSON.parse", "publicKeyToAddress"}
             verifyCalls == addressCalls \cup {"verifyECDSA"}
         IN  IF publicKeyToAddressThrows(publicKey)
                  THEN Calling(addressCalls, Err(ETypeError))
             ELSE IF gaiaAddress # publicKeyToAddress(publicKey)
                  THEN Calling(addressCalls, Err(ESigAddress))
             ELSE IF ~verifyECDSA(BufferFrom(fileContents), publicKey, signature)
                  THEN Calling(verifyCalls, Err(ESigECDSA))
             ELSE Calling(verifyCalls, Ok(fileContents))

\* Mutant: the ECDSA signature over the cipherText is not checked.
SignedEncryptedHandler_NoVerify(address, storedContents) ==
    IF Falsy(address) THEN Err(ESigNoAddress)
    ELSE IF JSONparseThrows(storedContents)
         THEN Calling({"JSON.parse"}, Err(EParseSignedEncrypted))
    ELSE LET sigObject == JSONparse(storedContents)
             signature == FieldSignature(sigObject)
             signerPublicKey == FieldPublicKey(sigObject)
             cipherText == FieldCipherText(sigObject)
             addressCalls == {"JSON.parse", "publicKeyToAddress"}
         IN  IF publicKeyToAddressThrows(signerPublicKey)
                  THEN Calling(addressCalls, Err(ETypeError))
             ELSE IF Falsy(signerPublicKey) \/ Falsy(cipherText) \/ Falsy(signature)
                  THEN Calling(addressCalls, Err(ESigNoData))
             ELSE IF publicKeyToAddress(signerPublicKey) # address
                  THEN Calling(addressCalls, Err(ESigAddress))
             ELSE Calling(addressCalls, decryptContentImpl(cipherText))

\* The addressPromise.then handler of handleSignedEncryptedContents.
SignedEncryptedHandler(address, storedContents) ==
    IF Falsy(address) THEN Err(ESigNoAddress)
    ELSE IF JSONparseThrows(storedContents)
         THEN Calling({"JSON.parse"}, Err(EParseSignedEncrypted))
    ELSE LET sigObject == JSONparse(storedContents)
             signature == FieldSignature(sigObject)
             signerPublicKey == FieldPublicKey(sigObject)
             cipherText == FieldCipherText(sigObject)
             addressCalls == {"JSON.parse", "publicKeyToAddress"}
             verifyCalls == addressCalls \cup {"verifyECDSA"}
         IN  IF publicKeyToAddressThrows(signerPublicKey)
                  THEN Calling(addressCalls, Err(ETypeError))
             ELSE IF Falsy(signerPublicKey) \/ Falsy(cipherText) \/ Falsy(signature)
                  THEN Calling(addressCalls, Err(ESigNoData))
             ELSE IF publicKeyToAddress(signerPublicKey) # address
                  THEN Calling(addressCalls, Err(ESigAddress))
             ELSE IF ~verifyECDSA(cipherText, signerPublicKey, signature)
                  THEN Calling(verifyCalls, Err(ESigECDSA))
             ELSE Calling(verifyCalls, decryptContentImpl(cipherText))

\* ------------------------------------------------------------------- put
\* The values of options.encrypt and options.sign: false, true, or a key
\* given explicitly (a public key to encrypt to, a private key to sign with).
EncryptOptions == {<<"false">>, <<"true">>, getPublicKeyFromPrivate(OtherKey)}
SignOptions == {<<"false">>, <<"true">>, <<"key", OtherKey>>}

Truthy(opt) == opt # <<"false">>
IsExplicit(opt) == opt # <<"false">> /\ opt # <<"true">>

\* Mutant: the contentType is never switched to application/octet-stream.
ContentTypeOf_AlwaysText(content) == "text/plain"

\* putFileImpl's contentType for the raw content.
ContentTypeOf(content) ==
    IF IsString(content) THEN "text/plain" ELSE "application/octet-stream"

\* putFileImpl's key resolution: the private key, '' when none is needed.
NoKey == ""
PutPrivateKey(encrypt, sign) ==
    LET afterSign == IF Truthy(sign)
                     THEN (IF IsExplicit(sign) THEN sign[2] ELSE AppPrivateKey)
                     ELSE NoKey
    IN  IF Truthy(encrypt) /\ ~IsExplicit(encrypt) /\ afterSign = NoKey
        THEN AppPrivateKey ELSE afterSign

\* Mutant: the derived public key is always that of the caller's key.
PutPublicKey_FromIdentity(encrypt, sign) ==
    IF ~Truthy(encrypt) THEN Undefined
    ELSE IF IsExplicit(encrypt) THEN encrypt
    ELSE getPublicKeyFromPrivate(AppPrivateKey)

\* putFileImpl's key resolution: the public key, undefined when none is needed.
PutPublicKey(encrypt, sign) ==
    IF ~Truthy(encrypt) THEN Undefined
    ELSE IF IsExplicit(encrypt) THEN encrypt
    ELSE getPublicKeyFromPrivate(PutPrivateKey(encrypt, sign))

Path == <<"f">>
SigPathOf(path) == path \o <<SIGNATURE_FILE_SUFFIX>>
Paths == {Path, SigPathOf(Path)}

Upload(path, body, contentType) ==
    [path |-> path, body |-> body, ctype |-> contentType]

\* Mutant: the plaintext is signed instead of the ciphertext.
PutSignedText_Plaintext(cipherText, content) == content

\* The text putFileImpl signs in encrypt+sign mode.
PutSignedText(cipherText, content) == cipherText

\* The uploads putFileImpl hands to uploadToGaiaHub, in the order of the calls.
PutUploads(path, content, encrypt, sign) ==
    LET privateKey == PutPrivateKey(encrypt, sign)
        publicKey == PutPublicKey(encrypt, sign)
    IN  IF ~Truthy(encrypt) /\ Truthy(sign)
        THEN << Upload(path, content, ContentTypeOf(content)),
                Upload(SigPathOf(path), JSONstringify(signECDSA(privateKey, content)),
                       "application/json") >>
        ELSE IF Truthy(encrypt) /\ ~Truthy(sign)
        THEN << Upload(path, encryptContentImpl(content, publicKey), "application/json") >>
        ELSE IF Truthy(encrypt) /\ Truthy(sign)
        THEN LET cipherText == encryptContentImpl(content, publicKey)
                 signatureObject == signECDSA(privateKey, PutSignedText(cipherText, content))
             IN  << Upload(path,
                           JSONstringify(<<"signedcipher", FieldSignature(signatureObject),
                                           FieldPublicKey(signatureObject), cipherText>>),
                           "application/json") >>
        ELSE << Upload(path, content, ContentTypeOf(content)) >>

\* ------------------------------------------------------------------- urls
\* A bucket URL is a sequence of segments, <<"seg", s>> or an address, and
\* ends in a slash or not. NoUrl stands for an undefined / null / empty URL.
NoUrl == [segs |-> <<>>, slash |-> FALSE, path |-> <<>>]
BucketUrl(segs, slash) == [segs |-> segs, slash |-> slash, path |-> <<>>]

\* The caller's cached hub connection (hub.js) when it was made with the
\* app private key: its address is the address of that key, and read URLs
\* are url_prefix + address + '/' + path.
HubConfig ==
    [address |-> publicKeyToAddress(getPublicKeyFromPrivate(AppPrivateKey)),
     url_prefix |-> <<"seg", "hub">>]

\* The hub connections a session can hold cached: the connection is made
\* outside the storage code and handed over as it is, so its address is the
\* address of the app private key or that of another key.
HubConfigs ==
    { HubConfig,
      [HubConfig EXCEPT !.address = publicKeyToAddress(getPublicKeyFromPrivate(OtherKey))] }

getFullReadUrl(path, hubConfig) ==
    [segs |-> <<hubConfig.url_prefix, hubConfig.address>>, slash |-> TRUE, path |-> path]

\* What lookupProfile can answer for the other user: a profile without an
\* apps mapping, one without an entry for the app, or one whose entry is a
\* URL of the bucket (the hub's URL without its trailing slash, or a URL
\* that embeds no address).
RegisteredUrls ==
    { BucketUrl(<<HubConfig.url_prefix, HubConfig.address>>, FALSE),
      BucketUrl(<< <<"seg", "custom">> >>, TRUE) }
Profiles ==
    { [hasApps |-> FALSE, entry |-> FALSE, url |-> NoUrl],
      [hasApps |-> TRUE, entry |-> FALSE, url |-> NoUrl] }
    \cup { [hasApps |-> TRUE, entry |-> TRUE, url |-> u] : u \in RegisteredUrls }
NoProfile == [hasApps |-> FALSE, entry |-> FALSE, url |-> NoUrl]

\* bucketUrl.replace(/\/?(\?|#|$)/, '/$1'): the URL made to end in a slash.
NormalizeBucketUrl(bucketUrl) == [bucketUrl EXCEPT !.slash = TRUE]

getUserAppFileUrl(path, profile) ==
    LET bucketUrl == IF profile.hasApps /\ profile.entry THEN profile.url ELSE NoUrl
    IN  IF bucketUrl # NoUrl
        THEN LET bucket == NormalizeBucketUrl(bucketUrl)
             IN  [bucket EXCEPT !.path = IF bucket.slash THEN path ELSE <<"merged">>]
        ELSE NoUrl

\* fileUrl.match(/([13][a-km-zA-HJ-NP-Z0-9]{26,35})/): the first
\* address-shaped part of the URL, Null when there is none.
MatchAddress(fileUrl) ==
    LET hits == {i \in 1..Len(fileUrl.segs) : fileUrl.segs[i][1] = "addr"}
    IN  IF hits = {} THEN Null
        ELSE fileUrl.segs[CHOOSE i \in hits : \A j \in hits : i <= j]

\* getGaiaAddress: the trust anchor of the bucket that is read.
getGaiaAddress(username, profile, hubConfig) ==
    LET fileUrl == IF username # Null
                   THEN getUserAppFileUrl(<<"/">>, profile)
                   ELSE getFullReadUrl(<<"/">>, hubConfig)
    IN  IF fileUrl = NoUrl THEN Err(ETypeError)
        ELSE IF MatchAddress(fileUrl) = Null THEN Err(EGaiaAddress)
        ELSE Ok(MatchAddress(fileUrl))

\* -------------------------------------------------------------------- hub
Absent == [body |-> Null, ctype |-> "none"]
Stored(upload) == [body |-> upload.body, ctype |-> upload.ctype]

\* response.text() and response.arrayBuffer() of a stored body.
ResponseText(body) == IF body[1] = "bin" THEN <<"text", "decoded">> ELSE body
ResponseArrayBuffer(body) == IF body[1] = "bin" THEN body ELSE <<"bin", "encoded">>

\* The HTTP statuses the hub can answer a GET of readUrl with: 200 when the
\* bucket holds the file, 404 when it does not, 301 or 500 at any time.
HubStatuses(bucket, readUrl) ==
    {301, 500} \cup (IF readUrl.path \in Paths /\ bucket[readUrl.path] # Absent
               THEN {200} ELSE {404})

\* Mutant: only the statuses from 400 on are failures, as in listFilesLoop.
FetchResult_ErrorsFrom400(bucket, readUrl, status, forceText) ==
    IF status >= 400
    THEN (IF status = 404 THEN Ok(Null) ELSE ErrStatus(EHttp, status))
    ELSE LET file == IF readUrl.path \in Paths THEN bucket[readUrl.path] ELSE Absent
             contentType == file.ctype
         IN  IF forceText \/ contentType = "none" \/ contentType = "text/plain"
                \/ contentType = "application/json"
             THEN Ok(ResponseText(file.body))
             ELSE Ok(ResponseArrayBuffer(file.body))

\* getFileContents' response handler.
FetchResult(bucket, readUrl, status, forceText) ==
    IF status # 200
    THEN (IF status = 404 THEN Ok(Null) ELSE ErrStatus(EHttp, status))
    ELSE LET file == bucket[readUrl.path]
             contentType == file.ctype
         IN  IF forceText \/ contentType = "none" \/ contentType = "text/plain"
                \/ contentType = "application/json"
             THEN Ok(ResponseText(file.body))
             ELSE Ok(ResponseArrayBuffer(file.body))

\* ------------------------------------------------------------------ state
VARIABLES
    store,  \* the bucket on the hub: path -> stored file or Absent
    op,     \* the call in flight or last made: "none", "put", "get"
    put,    \* the putFile call: its options, uploads and promise
    get,    \* the getFile call: its options, sub-operations and promise,
            \* (h) the history of the bucket it reads and (http) the
            \* statuses its fetches were answered with
    ops,    \* number of calls started
    env,    \* number of changes made to the bucket behind the caller's back
    hist,   \* history: the last put that succeeded ("ok") or stored the
            \* file without its signature ("partial"), and what changed since
    list,   \* the listFiles call
    auth    \* the verifyAuthRequestAndLoadManifest or verifyAuthResponse call

storageVars == <<store, op, put, get, ops, env, hist>>
vars == <<store, op, put, get, ops, env, hist, list, auth>>

Usernames == {Null, <<"user", "bob">>}

\* A sub-operation of getFile: not used, waiting for its URL / profile
\* lookup ("todo"), request sent, or settled with r.
NoHist == [put |-> "none", content |-> Null, encrypt |-> <<"false">>,
           sign |-> <<"false">>, changed |-> "no"]
SubNone == [st |-> "none", r |-> Pending]
SubTodo == [st |-> "todo", r |-> Pending]

\* The HTTP status each fetch of a getFile call was answered with (0: none).
NoStatus == [w \in {"file", "sig"} |-> 0]

IdlePut == [content |-> Null, encrypt |-> <<"false">>, sign |-> <<"false">>,
            uploads |-> <<>>, status |-> <<>>, result |-> Pending]
IdleGet == [decrypt |-> FALSE, verify |-> FALSE, username |-> Null,
            profile |-> NoProfile, file |-> SubNone, sig |-> SubNone,
            addr |-> SubNone, result |-> Pending, reqs |-> <<>>, h |-> NoHist,
            http |-> NoStatus, hub |-> HubConfig]
\* The listFiles call. hub is the kind of hub it talks to; page, callCount
\* and fileCount are the arguments of the listFilesLoop call in progress;
\* sent counts the requests sent, calls the invocations of the callback,
\* received the entries of the pages received, parsed the response bodies
\* handed to JSON.parse, stopped tells that the callback returned a falsy
\* value, last is the last response and seen the entries the callback was
\* called with while that response was handled.
NoResponse == [status |-> 0, kind |-> "none", entries |-> <<>>, page |-> "null"]
IdleList == [st |-> "idle", hub |-> "none", page |-> "null", callCount |-> 0,
             fileCount |-> 0, sent |-> 0, calls |-> 0, received |-> 0,
             parsed |-> 0, stopped |-> FALSE, last |-> NoResponse,
             seen |-> <<>>, result |-> Pending]

\* The verifyAuthRequestAndLoadManifest call: the token it was given,
\* where it stands (pc), the promise of verifyAuthRequest (inner), the
\* outcome of the manifest fetch and the promise it returned (outer).
\* The verifyAuthResponse call: whether the payload of its token names a
\* username, the nameLookupURL it was given, where the name lookup stands
\* (lookup) and the promise it returned (response).
NoToken == [alg |-> "-", keys |-> "-", exp |-> FALSE, iat |-> FALSE, sig |-> FALSE,
            iss |-> FALSE, manifestUri |-> FALSE, redirectUri |-> FALSE]
IdleAuth == [pc |-> "idle", token |-> NoToken, inner |-> Pending,
             manifest |-> "none", outer |-> Pending,
             username |-> FALSE, nameLookupURL |-> "null", lookup |-> "none",
             response |-> Pending]

\* No request of the current call is outstanding.
Quiescent ==
    /\ \A i \in 1..Len(put.status) : put.status[i] # "sent"
    /\ \A w \in {"file", "sig", "addr"} : get[w].st \in {"none", "done"}

Init ==
    /\ store = [p \in Paths |-> Absent]
    /\ op = "none"
    /\ put = IdlePut
    /\ get = IdleGet
    /\ ops = 0
    /\ env = 0
    /\ hist = NoHist
    /\ list = IdleList
    /\ auth = IdleAuth

\* ------------------------------------------------------------ put actions
\* putFileImpl up to the calls of uploadToGaiaHub (all made in one turn).
PutStart(content, encrypt, sign) ==
    /\ ops < MaxOps
    /\ Quiescent
    /\ ops' = ops + 1
    /\ op' = "put"
    /\ LET uploads == PutUploads(Path, content, encrypt, sign)
       IN  put' = [content |-> content, encrypt |-> encrypt, sign |-> sign,
                   uploads |-> uploads,
                   status |-> [i \in 1..Len(uploads) |-> "sent"],
                   result |-> Pending]
    /\ get' = IdleGet
    /\ hist' = NoHist
    /\ UNCHANGED <<store, env, list, auth>>

\* Promise.all over the uploads: rejected by the first failure, fulfilled
\* with fileUrls[0] once every upload has succeeded.
PutJoin(result, status, uploads, i, success) ==
    IF result # Pending THEN result
    ELSE IF ~success THEN Err(EUpload)
    ELSE IF \A j \in 1..Len(status) : status[j] = "ok"
         THEN Ok(<<"url", uploads[1].path[1]>>)
    ELSE Pending

\* The hub answers upload i: on success the file is stored.
UploadResponse(i, success) ==
    /\ op = "put"
    /\ i \in 1..Len(put.status)
    /\ put.status[i] = "sent"
    /\ LET status == [put.status EXCEPT ![i] = IF success THEN "ok" ELSE "fail"]
           result == PutJoin(put.result, status, put.uploads, i, success)
       IN  /\ put' = [put EXCEPT !.status = status, !.result = result]
           /\ hist' = IF put.result = Pending /\ result.t = "ok"
                       THEN [put |-> "ok", content |-> put.content,
                             encrypt |-> put.encrypt, sign |-> put.sign,
                             changed |-> "no"]
                       ELSE IF status = <<"ok", "fail">>
                       THEN [put |-> "partial", content |-> put.content,
                             encrypt |-> put.encrypt, sign |-> put.sign,
                             changed |-> "no"]
                       ELSE hist
    /\ store' = IF success
                 THEN [store EXCEPT ![put.uploads[i].path] = Stored(put.uploads[i])]
                 ELSE store
    /\ UNCHANGED <<op, get, ops, env, list, auth>>

\* ------------------------------------------------------------ get actions
\* Mutant: the detached signature is fetched whenever verify is on.
NeedsSignatureFile_VerifyOnly(decrypt, verify) == verify

\* getFileImpl's test for the case that needs the detached signature.
NeedsSignatureFile(decrypt, verify) == verify /\ ~decrypt

TwoFiles(g) == NeedsSignatureFile(g.decrypt, g.verify)

\* getFileImpl: the sub-operations it starts. With verify and without
\* decrypt, getFileSignedUnencrypted starts three of them at once.
GetStart(decrypt, verify, username, profile, hubConfig) ==
    /\ ops < MaxOps
    /\ Quiescent
    /\ ops' = ops + 1
    /\ op' = "get"
    /\ get' = [decrypt |-> decrypt, verify |-> verify, username |-> username,
               profile |-> profile, file |-> SubTodo,
               sig |-> IF NeedsSignatureFile(decrypt, verify) THEN SubTodo ELSE SubNone,
               addr |-> IF NeedsSignatureFile(decrypt, verify) THEN SubTodo ELSE SubNone,
               result |-> Pending, reqs |-> <<>>, h |-> hist, http |-> NoStatus,
               hub |-> hubConfig]
    /\ put' = IdlePut
    /\ UNCHANGED <<store, env, hist, list, auth>>

\* Mutant: the own read takes its trust anchor from the hub connection.
StoredContentsHandler_HubAnchor(g, storedContents) ==
    IF storedContents = Null THEN Ok(storedContents)
    ELSE IF g.decrypt /\ ~g.verify
         THEN (IF ~IsString(storedContents) THEN Err(ENotString)
               ELSE decryptContentImpl(storedContents))
    ELSE IF g.decrypt /\ g.verify
         THEN (IF ~IsString(storedContents) THEN Err(ENotString)
               ELSE IF g.username # Null THEN Pending
               ELSE SignedEncryptedHandler(g.hub.address, storedContents))
    ELSE Ok(storedContents)

\* Mutant: a missing file is not short-circuited to null.
StoredContentsHandler_NoNullTest(g, storedContents) ==
    IF g.decrypt /\ ~g.verify
         THEN (IF ~IsString(storedContents) THEN Err(ENotString)
               ELSE decryptContentImpl(storedContents))
    ELSE IF g.decrypt /\ g.verify
         THEN (IF ~IsString(storedContents) THEN Err(ENotString)
               ELSE IF g.username # Null THEN Pending
               ELSE SignedEncryptedHandler(
                        publicKeyToAddress(getPublicKeyFromPrivate(AppPrivateKey)),
                        storedContents))
    ELSE Ok(storedContents)

\* The .then handler of getFileImpl on the fetched contents. It yields the
\* call's settlement, or Pending when handleSignedEncryptedContents has yet
\* to resolve the address of the other user's bucket.
StoredContentsHandler(g, storedContents) ==
    IF storedContents = Null THEN Ok(storedContents)
    ELSE IF g.decrypt /\ ~g.verify
         THEN (IF ~IsString(storedContents) THEN Err(ENotString)
               ELSE decryptContentImpl(storedContents))
    ELSE IF g.decrypt /\ g.verify
         THEN (IF ~IsString(storedContents) THEN Err(ENotString)
               ELSE IF g.username # Null THEN Pending
               ELSE SignedEncryptedHandler(
                        publicKeyToAddress(getPublicKeyFromPrivate(AppPrivateKey)),
                        storedContents))
    ELSE Ok(storedContents)

SubPath(w) == IF w = "sig" THEN SigPathOf(Path) ELSE Path

\* Sub-operation w of g settles with r: what the promise chain
\* does next. Promise.all rejects with the first rejection and fulfils once
\* all three have fulfilled; the single-file chain runs its handlers.
SettleOnce(g, w, r) ==
    LET g1 == [g EXCEPT ![w] = [st |-> "done", r |-> r]]
    IN  IF g.result # Pending THEN g1
        ELSE IF r.t = "err" THEN [g1 EXCEPT !.result = r]
        ELSE IF TwoFiles(g)
        THEN (IF \A x \in {"file", "sig", "addr"} : g1[x].st = "done"
              THEN [g1 EXCEPT !.result =
                       SignedUnencryptedHandler(g1.file.r.v, g1.sig.r.v, g1.addr.r.v)]
              ELSE g1)
        ELSE IF w = "file"
        THEN LET res == StoredContentsHandler(g, r.v)
             IN  IF res = Pending THEN [g1 EXCEPT !.addr = SubTodo]
                 ELSE [g1 EXCEPT !.result = res]
        ELSE [g1 EXCEPT !.result = SignedEncryptedHandler(r.v, g1.file.r.v)]

\* Mutant: a fetch answered with an error status is sent a second time.
Settle_RetryOnce(g, w, r) ==
    IF /\ r.t = "err" /\ r.s # 0
       /\ Cardinality({i \in 1..Len(g.reqs) : g.reqs[i] = SubPath(w)}) < 2
    THEN [g EXCEPT ![w] = SubTodo]
    ELSE SettleOnce(g, w, r)

\* The settlement of a sub-operation is final: no handler of getFileContents
\* or getFileImpl starts it again.
Settle(g, w, r) == SettleOnce(g, w, r)

\* getFileContents: the read URL of sub-operation w.
ReadUrl(g, w) ==
    IF g.username # Null
    THEN getUserAppFileUrl(SubPath(w), g.profile)
    ELSE getFullReadUrl(SubPath(w), g.hub)

\* Mutant: a read URL that does not resolve is a soft miss.
NoReadUrlResult_SoftMiss == Ok(Null)

\* getFileContents' settlement when no read URL resolves: reject(null).
NoReadUrlResult == Err(ENullReject)

\* getFileContents up to fetch(readUrl): without a read URL it rejects with
\* null, otherwise the request is sent.
GetRequest(w) ==
    /\ op = "get"
    /\ w \in {"file", "sig"}
    /\ get[w].st = "todo"
    /\ get' = IF ReadUrl(get, w) = NoUrl
              THEN Settle(get, w, NoReadUrlResult)
              ELSE [get EXCEPT ![w].st = "sent", !.reqs = Append(@, SubPath(w))]
    /\ UNCHANGED <<store, op, put, ops, env, hist, list, auth>>

\* The hub answers the request of sub-operation w.
GetResponse(w, status) ==
    /\ op = "get"
    /\ w \in {"file", "sig"}
    /\ get[w].st = "sent"
    /\ status \in HubStatuses(store, ReadUrl(get, w))
    /\ get' = [Settle(get, w,
                       FetchResult(store, ReadUrl(get, w), status,
                                   IF TwoFiles(get) THEN w = "sig" ELSE get.decrypt))
                 EXCEPT !.http[w] = status]
    /\ UNCHANGED <<store, op, put, ops, env, hist, list, auth>>

\* getGaiaAddress settles.
GetAddress ==
    /\ op = "get"
    /\ get.addr.st = "todo"
    /\ get' = Settle(get, "addr", getGaiaAddress(get.username, get.profile, get.hub))
    /\ UNCHANGED <<store, op, put, ops, env, hist, list, auth>>

\* ------------------------------------------------------------ environment
\* The bucket changes behind the caller's back, between two of its calls.
\* Someone else deletes a file of the bucket.
HubDelete(path) ==
    /\ env < MaxEnv
    /\ ops < MaxOps
    /\ Quiescent
    /\ store[path] # Absent
    /\ env' = env + 1
    /\ store' = [store EXCEPT ![path] = Absent]
    /\ hist' = [hist EXCEPT !.changed =
                    IF @ = "no" /\ path = SigPathOf(Path) THEN "sigDeleted" ELSE "other"]
    /\ UNCHANGED <<op, put, get, ops, list, auth>>

\* The payload whose ciphertext is put in the place of the stored one.
ForgedContent == <<"text", "forged">>

\* Someone else replaces the cipherText field of a stored
\* {signature, publicKey, cipherText} by the ciphertext of another payload.
HubTamperCipherText(content) ==
    /\ env < MaxEnv
    /\ ops < MaxOps
    /\ Quiescent
    /\ store[Path].body[1] = "json"
    /\ store[Path].body[2][1] = "signedcipher"
    /\ LET obj == store[Path].body[2]
           old == JSONparse(obj[4])
           new == JSONstringify(encryptECIES(old[2], content))
       IN  /\ new # obj[4]
           /\ store' = [store EXCEPT ![Path].body =
                           JSONstringify(<<"signedcipher", obj[2], obj[3], new>>)]
    /\ env' = env + 1
    /\ hist' = [hist EXCEPT !.changed = IF @ = "no" THEN "cipherText" ELSE "other"]
    /\ UNCHANGED <<op, put, get, ops, list, auth>>

Next ==
    \/ \E c \in Contents, e \in EncryptOptions, s \in SignOptions : PutStart(c, e, s)
    \/ \E i \in 1..2, success \in BOOLEAN : UploadResponse(i, success)
    \/ \E d \in BOOLEAN, v \in BOOLEAN :
          \/ GetStart(d, v, Null, NoProfile, HubConfig)
          \/ \E u \in Usernames \ {Null}, pr \in Profiles :
                GetStart(d, v, u, pr, HubConfig)
    \/ \E w \in {"file", "sig"} : GetRequest(w)
    \/ \E w \in {"file", "sig"}, status \in {200, 301, 404, 500} : GetResponse(w, status)
    \/ GetAddress
    \/ \E p \in Paths : HubDelete(p)
    \/ HubTamperCipherText(ForgedContent)

Spec == Init /\ [][Next]_vars

\* The same calls in sessions whose cached hub connection may hold the
\* address of another key than the app private key.
OwnReadForeignHub ==
    \E d \in BOOLEAN, v \in BOOLEAN, hubConfig \in HubConfigs \ {HubConfig} :
        GetStart(d, v, Null, NoProfile, hubConfig)

AnchorNext == Next \/ OwnReadForeignHub

AnchorSpec == Init /\ [][AnchorNext]_vars

\* --------------------------------------------------------------- listFiles
EListStatus == "Error: listFiles failed with HTTP status"
EListSyntax == "SyntaxError"
EListNoEntries == "Error: Bad listFiles response: no entries"
EListTooMany == "Error: Too many entries to list"

\* The names of a page of n entries.
EntryNames == <<"e1", "e2", "e3", "e4">>
PageOf(n) == SubSeq(EntryNames, 1, n)

\* A listing response: its HTTP status, what its body is (not JSON, JSON
\* without entries, JSON with entries: null, JSON with an entries array),
\* the entries and the next-page cursor.
Response(status, kind, entries, page) ==
    [status |-> status, kind |-> kind, entries |-> entries, page |-> page]

Cursors == {"null", "c1", "c2"}
Responses ==
    { Response(st, k, PageOf(n), pg) :
        st \in {200, 301, 400, 500}, k \in {"text", "noEntries", "nullEntries", "array"},
        n \in 0..MaxEntries, pg \in Cursors }

\* A hub that answers every request with the same non-empty page and the
\* same cursor.
StuckResponse == Response(200, "array", PageOf(1), "c1")

\* Mutant: the limit is tested one call too late.
listFilesLoop_LateLimit(l, page, callCount, fileCount) ==
    IF callCount > MaxCallCount + 1
    THEN [l EXCEPT !.st = "done", !.result = Err(EListTooMany)]
    ELSE [l EXCEPT !.st = "wait", !.page = page, !.callCount = callCount,
                   !.fileCount = fileCount, !.sent = @ + 1]

\* Mutant: the limit is tested with >= instead of >.
listFilesLoop_AtLimit(l, page, callCount, fileCount) ==
    IF callCount >= MaxCallCount
    THEN [l EXCEPT !.st = "done", !.result = Err(EListTooMany)]
    ELSE [l EXCEPT !.st = "wait", !.page = page, !.callCount = callCount,
                   !.fileCount = fileCount, !.sent = @ + 1]

\* listFilesLoop up to its fetch: it throws when callCount exceeds the
\* limit and sends the listing request otherwise.
listFilesLoop(l, page, callCount, fileCount) ==
    IF callCount > MaxCallCount
    THEN [l EXCEPT !.st = "done", !.result = Err(EListTooMany)]
    ELSE [l EXCEPT !.st = "wait", !.page = page, !.callCount = callCount,
                   !.fileCount = fileCount, !.sent = @ + 1]

\* Mutant: the entry the callback stopped at is counted.
StoppedCount_Inclusive(fileCount, i) == fileCount + i + 1

\* The count listFilesLoop resolves to when the callback stops at entries[i].
StoppedCount(fileCount, i) == fileCount + i

\* The count listFilesLoop resolves to on the last page.
FinalCount(fileCount, entries) == fileCount

\* Mutant: the status test is written with > instead of >=.
ListStatusFails_Above(httpStatus) == httpStatus > 400

\* listFilesLoop's test of the HTTP status of a listing response.
ListStatusFails(httpStatus) == httpStatus >= 400

\* Mutant: only entries: null is refused, a missing field is not.
EntriesMissing_NullOnly(kind) == kind = "nullEntries"

\* listFilesLoop's test `entries === null || entries === undefined`.
EntriesMissing(kind) == kind \in {"noEntries", "nullEntries"}

\* The callCount listFilesLoop passes to its recursive call.
NextCallCount(callCount) == callCount + 1

\* Mutant: the page is walked from its last entry to its first.
RECURSIVE ForLoop_Backwards(_, _, _, _)
ForLoop_Backwards(entries, i, stopAt, seen) ==
    IF i > Len(entries) THEN seen
    ELSE LET called == Append(seen, entries[Len(entries) + 1 - i])
         IN  IF i = stopAt THEN called
             ELSE ForLoop_Backwards(entries, i + 1, stopAt, called)

\* listFilesLoop's for loop from entry number i on: the entries the
\* callback is called with, in the order of the calls; the callback returns
\* a falsy value on entry number stopAt and the loop returns there.
RECURSIVE ForLoop(_, _, _, _)
ForLoop(entries, i, stopAt, seen) ==
    IF i > Len(entries) THEN seen
    ELSE LET called == Append(seen, entries[i])
         IN  IF i = stopAt THEN called
             ELSE ForLoop(entries, i + 1, stopAt, called)

\* Mutant: the listing always goes on from the first cursor handed out.
nextPage_First(resp) == IF resp.page = "null" THEN "null" ELSE "c1"

\* listFilesLoop's nextPage: the page field of the response.
nextPage(resp) == resp.page

\* The .then handlers of listFilesLoop on response resp; the callback
\* returns a falsy value on entry number stopAt of the page (never when
\* stopAt is 0).
ListHandler(l, resp, stopAt) ==
    LET l1 == [l EXCEPT !.last = resp, !.seen = <<>>]
        l1p == [l1 EXCEPT !.parsed = @ + 1]
        done(x, r) == [x EXCEPT !.st = "done", !.result = r]
        n == Len(resp.entries)
    IN  IF ListStatusFails(resp.status)
        THEN done(l1, ErrStatus(EListStatus, resp.status))
        ELSE IF resp.kind = "text" THEN done(l1p, Err(EListSyntax))
        ELSE IF EntriesMissing(resp.kind) THEN done(l1p, Err(EListNoEntries))
        ELSE IF stopAt \in 1..n
        THEN [done(l1p, Ok(<<"count", StoppedCount(l.fileCount, stopAt - 1)>>))
                EXCEPT !.calls = @ + stopAt, !.received = @ + n, !.stopped = TRUE,
                       !.seen = ForLoop(resp.entries, 1, stopAt, <<>>)]
        ELSE LET l2 == [l1p EXCEPT !.calls = @ + n, !.received = @ + n,
                                   !.seen = ForLoop(resp.entries, 1, stopAt, <<>>)]
             IN  IF nextPage(resp) # "null" /\ n > 0
                 THEN listFilesLoop(l2, nextPage(resp), NextCallCount(l.callCount),
                                    l.fileCount + n)
                 ELSE [l2 EXCEPT !.st = "done",
                                 !.result = Ok(<<"count", FinalCount(l.fileCount, resp.entries)>>)]

\* listFilesImpl: the first call of listFilesLoop.
ListStart(hub) ==
    /\ list.st = "idle"
    /\ list' = listFilesLoop([IdleList EXCEPT !.hub = hub], "null", 0, 0)
    /\ UNCHANGED <<storageVars, auth>>

\* The hub answers the listing request. A well-behaved hub hands out a
\* cursor for MaxPages pages at most.
ListResponse(resp, stopAt) ==
    /\ list.st = "wait"
    /\ IF list.hub = "stuck" THEN resp = StuckResponse
       ELSE resp.page # "null" => list.callCount + 1 < MaxPages
    /\ stopAt \in 0..Len(resp.entries)
    /\ list' = ListHandler(list, resp, stopAt)
    /\ UNCHANGED <<storageVars, auth>>

\* The responses the hub in hand can give.
Answers == IF list.hub = "stuck" THEN {StuckResponse} ELSE Responses

ListNext ==
    \/ \E hub \in {"any", "stuck"} : ListStart(hub)
    \/ \E resp \in Answers : \E stopAt \in 0..Len(resp.entries) : ListResponse(resp, stopAt)

ListSpec == Init /\ [][ListNext]_vars

\* The hub answers the outstanding listing request, in some way.
ListAnswer ==
    \E resp \in Answers : \E stopAt \in 0..Len(resp.entries) : ListResponse(resp, stopAt)

\* One session of the caller: calls of putFile and getFile, or one call of
\* listFiles against a hub that ends its listing.
CallNext ==
    \/ list.st = "idle" /\ Next
    \/ ops = 0 /\ ListStart("any")
    \/ ops = 0 /\ ListAnswer

CallSpec == Init /\ [][CallNext]_vars

\* listFiles under a transport that answers every request eventually.
ListFairSpec == ListSpec /\ WF_vars(ListAnswer)

\* ------------------------------------------------------------------- auth
\* A token, by what decodeToken and the checks find in it: the alg of its
\* header, whether payload.public_keys holds one key or several, and
\* whether exp, iat, the signature, the issuer, manifest_uri and
\* redirect_uri pass their checks. An unsigned token carries no signature
\* that verifies.
Tokens ==
    { t \in [alg : {"ES256K", "none"}, keys : {"one", "several"},
             exp : BOOLEAN, iat : BOOLEAN, sig : BOOLEAN, iss : BOOLEAN,
             manifestUri : BOOLEAN, redirectUri : BOOLEAN] :
        t.alg = "none" => ~t.sig }

EUnsigned == "Token must be signed in order to be verified"
EMultipleKeys == "Error: Multiple public keys are not supported"

Bool(b) == <<"bool", b>>
Manifest == <<"manifest", "app">>

isExpirationDateValid(token) == token.exp
isIssuanceDateValid(token) == token.iat
doSignaturesMatchPublicKeysThrows(token) == token.keys # "one"
doSignaturesMatchPublicKeys(token) == token.sig
doPublicKeysMatchIssuer(token) == token.iss
isManifestUriValid(token) == token.manifestUri
isRedirectUriValid(token) == token.redirectUri

\* values.every(Boolean) over the six checks of verifyAuthRequest.
AuthRequestChecks(token) ==
    /\ isExpirationDateValid(token)
    /\ isIssuanceDateValid(token)
    /\ doSignaturesMatchPublicKeys(token)
    /\ doPublicKeysMatchIssuer(token)
    /\ isManifestUriValid(token)
    /\ isRedirectUriValid(token)

\* verifyAuthRequest's executor: the settlement it makes before it returns.
\* It rejects an unsigned token (and goes on: a later resolve has no
\* effect), and a throw of doSignaturesMatchPublicKeys rejects as well;
\* otherwise the promise stays pending until Promise.all has resolved.
verifyAuthRequestExecutor(token) ==
    IF token.alg = "none" THEN Err(EUnsigned)
    ELSE IF doSignaturesMatchPublicKeysThrows(token) THEN Err(EMultipleKeys)
    ELSE Pending

\* verifyAuthRequestAndLoadManifest up to the return of its promise.
AuthStart(token) ==
    /\ auth.pc = "idle"
    /\ auth' = [IdleAuth EXCEPT !.pc = "verify", !.token = token,
                                !.inner = verifyAuthRequestExecutor(token)]
    /\ UNCHANGED <<storageVars, list>>

\* The .then of Promise.all in verifyAuthRequest resolves its promise.
AuthVerified ==
    /\ auth.pc = "verify" /\ auth.inner.t = "pending"
    /\ auth' = [auth EXCEPT !.inner = Ok(Bool(AuthRequestChecks(auth.token)))]
    /\ UNCHANGED <<storageVars, list>>

\* The .then(valid => ...) of verifyAuthRequestAndLoadManifest once
\* verifyAuthRequest has settled: it fetches the manifest of a valid
\* request and rejects for an invalid one; it does not run when
\* verifyAuthRequest was rejected, and no other handler is attached.
AuthThenHandler(a) ==
    IF a.inner.t = "err" THEN [a EXCEPT !.pc = "end"]
    ELSE IF a.inner.v = Bool(TRUE) THEN [a EXCEPT !.pc = "manifest", !.manifest = "sent"]
    ELSE [a EXCEPT !.pc = "end", !.outer = Err("undefined")]

AuthThen ==
    /\ auth.pc = "verify" /\ auth.inner.t # "pending"
    /\ auth' = AuthThenHandler(auth)
    /\ UNCHANGED <<storageVars, list>>

\* fetchAppManifest settles: .then(appManifest => resolve(appManifest))
\* runs when it is fulfilled, nothing runs when it is rejected.
ManifestResponse(success) ==
    /\ auth.pc = "manifest"
    /\ auth' = IF success
               THEN [auth EXCEPT !.pc = "end", !.manifest = "ok", !.outer = Ok(Manifest)]
               ELSE [auth EXCEPT !.pc = "end", !.manifest = "fail"]
    /\ UNCHANGED <<storageVars, list>>

AuthNext ==
    \/ \E token \in Tokens : AuthStart(token)
    \/ AuthVerified
    \/ AuthThen
    \/ \E success \in BOOLEAN : ManifestResponse(success)

AuthSpec == Init /\ [][AuthNext]_vars

\* What the name lookup can come to: the address of the issuer, another
\* address, a body without an address, or a failure of the fetch or of
\* JSON.parse.
LookupOutcomes == {"match", "mismatch", "noAddress", "fail"}

\* doPublicKeysMatchUsername up to its fetch: resolved at once without a
\* username or without a lookup URL, otherwise the lookup is sent.
UsernameLookupNeeded(username, nameLookupURL) == username /\ nameLookupURL # "null"

\* What doPublicKeysMatchUsername resolves to.
doPublicKeysMatchUsername(a) ==
    IF ~a.username THEN TRUE
    ELSE IF a.nameLookupURL = "null" THEN FALSE
    ELSE a.lookup = "match"

\* values.every(Boolean) over the five checks of verifyAuthResponse.
AuthResponseChecks(a) ==
    /\ isExpirationDateValid(a.token)
    /\ isIssuanceDateValid(a.token)
    /\ doSignaturesMatchPublicKeys(a.token)
    /\ doPublicKeysMatchIssuer(a.token)
    /\ doPublicKeysMatchUsername(a)

\* verifyAuthResponse's executor: the settlement it makes before it
\* returns. The checks are called while the array for Promise.all is
\* built, so a throw of doSignaturesMatchPublicKeys rejects the promise;
\* otherwise it stays pending until Promise.all has resolved.
verifyAuthResponseExecutor(token) ==
    IF doSignaturesMatchPublicKeysThrows(token) THEN Err(EMultipleKeys) ELSE Pending

\* verifyAuthResponse up to the return of its promise.
ResponseStart(token, username, nameLookupURL) ==
    /\ auth.pc = "idle"
    /\ LET settled == verifyAuthResponseExecutor(token)
       IN  auth' = [IdleAuth EXCEPT
                      !.pc = IF settled = Pending THEN "response" ELSE "responded",
                      !.token = token, !.username = username,
                      !.nameLookupURL = nameLookupURL,
                      !.lookup = IF settled = Pending
                                    /\ UsernameLookupNeeded(username, nameLookupURL)
                                 THEN "sent" ELSE "none",
                      !.response = settled]
    /\ UNCHANGED <<storageVars, list>>

\* The name lookup ends, and doPublicKeysMatchUsername resolves.
NameLookup(outcome) ==
    /\ auth.pc = "response" /\ auth.lookup = "sent"
    /\ auth' = [auth EXCEPT !.lookup = outcome]
    /\ UNCHANGED <<storageVars, list>>

\* The .then of Promise.all in verifyAuthResponse resolves its promise.
ResponseVerified ==
    /\ auth.pc = "response" /\ auth.lookup # "sent"
    /\ auth' = [auth EXCEPT !.pc = "responded",
                            !.response = Ok(Bool(AuthResponseChecks(auth)))]
    /\ UNCHANGED <<storageVars, list>>

AuthResponseNext ==
    \/ \E token \in Tokens, username \in BOOLEAN, nameLookupURL \in {"null", "url"} :
          ResponseStart(token, username, nameLookupURL)
    \/ \E outcome \in LookupOutcomes : NameLookup(outcome)
    \/ ResponseVerified

AuthResponseSpec == Init /\ [][AuthResponseNext]_vars

\* ================================================================= claims
GetSettled == op = "get" /\ get.result # Pending
Returned(v) == get.result.t = "ok" /\ get.result.v = v
Failed(e) == get.result.t = "err" /\ get.result.e = e

\* The bucket holds what the last successful put stored with derived keys,
\* and the get in hand reads the caller's own bucket with the matching
\* options.
SymmetricGet ==
    /\ GetSettled
    /\ get.h.put = "ok" /\ get.h.changed = "no"
    /\ ~IsExplicit(get.h.encrypt) /\ ~IsExplicit(get.h.sign)
    /\ get.username = Null
    /\ get.decrypt = Truthy(get.h.encrypt)
    /\ get.verify = Truthy(get.h.sign)

\* C1: round trip. After a successful put of content c with derived keys,
\* a get of the caller's own bucket with decrypt = encrypt and
\* verify = sign, with no write in between, returns exactly c; the only
\* other outcome is the failure of a fetch with an HTTP error status.
C1_RoundTrip ==
    SymmetricGet => Returned(get.h.content) \/ Failed(EHttp)

C1_Witness ==
    /\ SymmetricGet
    /\ get.decrypt /\ get.verify
    /\ get.h.content = <<"bin", "b1">>
    /\ Returned(get.h.content)

\* The detached signature the get fetched was made by a key whose address
\* is not the trust anchor that was resolved.
ForeignDetachedSignature ==
    /\ GetSettled /\ TwoFiles(get)
    /\ get.file.st = "done" /\ get.file.r.t = "ok" /\ get.file.r.v # Null
    /\ get.addr.st = "done" /\ get.addr.r.t = "ok"
    /\ get.sig.st = "done" /\ get.sig.r.t = "ok"
    /\ \E k \in PrivateKeys, c \in Contents :
          /\ get.sig.r.v = JSONstringify(signECDSA(k, c))
          /\ publicKeyToAddress(getPublicKeyFromPrivate(k)) # get.addr.r.v

\* C2: a get with verify on content whose detached signature was made by a
\* key other than the one behind the trust anchor fails with the
\* signer-address mismatch and never returns the content.
C2_ForeignSignerRejected ==
    ForeignDetachedSignature => Failed(ESigAddress)

\* C2 for content that is not the empty string.
C2_ForeignSignerRejectedNonEmpty ==
    ForeignDetachedSignature /\ get.file.r.v # <<"text", "">> => Failed(ESigAddress)

\* The get in hand fetched a file that a put with encrypt and sign (derived
\* signing key) stored and whose cipherText field was replaced afterwards,
\* and it knows the trust anchor.
TamperedGet ==
    /\ GetSettled
    /\ get.decrypt /\ get.verify
    /\ get.h.put = "ok" /\ get.h.changed = "cipherText"
    /\ Truthy(get.h.encrypt) /\ get.h.sign = <<"true">>
    /\ get.file.r.t = "ok"
    /\ get.username # Null => get.addr.r.t = "ok"

\* C3: put signs the ciphertext: once the stored cipherText is changed (the
\* signature and publicKey kept), get with decrypt and verify fails with
\* the ECDSA mismatch and never calls the decryption.
C3_CipherTextTamperDetected ==
    TamperedGet => Failed(ESigECDSA) /\ "decryptECIES" \notin get.result.c

C3_Witness ==
    TamperedGet /\ Failed(ESigECDSA) /\ "verifyECDSA" \in get.result.c

\* The fetch of the file at path was answered with 404.
FileNotFound == op = "get" /\ get.file.st = "done" /\ get.file.r = Ok(Null)

\* C4 as stated: a 404 for the file makes get resolve to null whatever the
\* other sub-operations do.
C4_NotFoundAlwaysNull ==
    FileNotFound /\ Quiescent => Returned(Null)

\* C4 amended: a 404 for the file makes get resolve to null, without any
\* parsing, verification or decryption, unless the fetch of the signature
\* file or the resolution of the trust anchor (verify without decrypt) is
\* rejected; get then rejects with that rejection.
C4_NotFoundNullUnlessSiblingFails ==
    FileNotFound /\ GetSettled =>
        /\ get.result.c = {}
        /\ IF \E w \in {"sig", "addr"} : get[w].r.t = "err"
           THEN TwoFiles(get) /\ get.result \in {get.sig.r, get.addr.r}
           ELSE Returned(Null)

C4_Witness ==
    /\ FileNotFound /\ GetSettled /\ TwoFiles(get)
    /\ get.sig.r.t = "ok" /\ get.sig.r.v # Null
    /\ Returned(Null)

ListDone == list.st = "done"
Counted(n) == list.result.t = "ok" /\ list.result.v = <<"count", n>>

EndlessListing == list.hub = "stuck" /\ ~list.stopped

\* C6 as stated: against such a hub listFiles sends exactly 65536 listing
\* requests and fails with 'Too many entries to list' before the 65537th.
C6_FailsBefore65537thRequest ==
    EndlessListing /\ ListDone =>
        list.result = Err(EListTooMany) /\ list.sent = MaxCallCount

\* C6 amended: against such a hub listFiles sends exactly 65537 listing
\* requests (callCount 0 to 65536) and fails with 'Too many entries to
\* list' at the 65538th iteration, before a 65538th request is sent.
C6_FailsBefore65538thRequest ==
    /\ list.sent <= MaxCallCount + 1
    /\ EndlessListing /\ ListDone =>
          /\ list.result = Err(EListTooMany)
          /\ list.sent = MaxCallCount + 1
          /\ list.callCount = MaxCallCount
    /\ list.result = Err(EListTooMany) => list.sent = MaxCallCount + 1

C6_Witness ==
    EndlessListing /\ ListDone /\ list.result = Err(EListTooMany)

\* The get in hand fetched a non-empty file and found no signature file
\* (404), and it knows the trust anchor.
MissingSignatureFile ==
    /\ GetSettled /\ TwoFiles(get)
    /\ get.file.st = "done" /\ get.file.r.t = "ok" /\ ~Falsy(get.file.r.v)
    /\ get.sig.st = "done" /\ get.sig.r = Ok(Null)

\* C7: for a non-empty file whose .sig companion is absent, get with
\* verify and without decrypt fails with 'Failed to obtain signature' once
\* the trust anchor is resolved, and never with the address mismatch or
\* the ECDSA mismatch.
C7_MissingSignatureReported ==
    MissingSignatureFile =>
        /\ ~Failed(ESigAddress) /\ ~Failed(ESigECDSA) /\ get.result.t = "err"
        /\ get.addr.r.t = "ok" => Failed(ESigNoSignature)

\* The signature file of a signed, unencrypted put was deleted.
C7_Witness ==
    /\ MissingSignatureFile
    /\ get.h.put = "ok" /\ get.h.changed = "sigDeleted"
    /\ ~Truthy(get.h.encrypt) /\ Truthy(get.h.sign)
    /\ Failed(ESigNoSignature)

\* The uploads of the decision table of put for content c, written out.
IsSignatureOf(sigObject, k, text) ==
    /\ sigObject[1] \in {"sigobj", "signedcipher"}
    /\ sigObject[2] = <<"ecdsa", k, BufferFrom(text)>>
    /\ sigObject[3] = <<"pub", k>>

TableUploads(c, encrypt, sign, uploads) ==
    LET signer == IF IsExplicit(sign) THEN sign[2] ELSE AppPrivateKey
        json(i) == uploads[i].ctype = "application/json" /\ uploads[i].body[1] = "json"
    IN  /\ \A i \in 1..Len(uploads) : uploads[i].path \in Paths
        /\ uploads[1].path = Path
        /\ IF ~Truthy(encrypt) /\ ~Truthy(sign)
           THEN /\ Len(uploads) = 1
                /\ uploads[1].body = c
                /\ uploads[1].ctype = IF c[1] = "bin" THEN "application/octet-stream"
                                                       ELSE "text/plain"
           ELSE IF ~Truthy(encrypt)
           THEN /\ Len(uploads) = 2
                /\ uploads[1].body = c
                /\ uploads[2].path = SigPathOf(Path)
                /\ json(2)
                /\ uploads[2].body[2][1] = "sigobj"
                /\ IsSignatureOf(uploads[2].body[2], signer, c)
           ELSE IF ~Truthy(sign)
           THEN /\ Len(uploads) = 1
                /\ json(1)
                /\ uploads[1].body[2][1] = "cipher"
                /\ uploads[1].body[2][3] = c
           ELSE /\ Len(uploads) = 1
                /\ json(1)
                /\ uploads[1].body[2][1] = "signedcipher"
                /\ uploads[1].body[2][4][1] = "json"
                /\ uploads[1].body[2][4][2][1] = "cipher"
                /\ uploads[1].body[2][4][2][3] = c
                /\ IsSignatureOf(uploads[1].body[2], signer, uploads[1].body[2][4])

\* C8: put issues exactly the uploads of its decision table: one upload of
\* the raw content (text/plain or application/octet-stream), or the
\* plaintext and the signature JSON at path.sig, or one cipher envelope, or
\* one {signature, publicKey, cipherText} whose signature covers the
\* cipherText; the JSON ones as application/json; and no other upload.
C8_PutUploadsFollowTable ==
    op = "put" =>
        /\ TableUploads(put.content, put.encrypt, put.sign, put.uploads)
        /\ Len(put.status) = Len(put.uploads)

C8_Witness ==
    /\ op = "put" /\ Len(put.uploads) = 2 /\ put.content[1] = "bin"
    /\ \A i \in 1..2 : put.status[i] = "ok"
    /\ store[Path].ctype = "application/octet-stream"
    /\ store[SigPathOf(Path)].ctype = "application/json"

\* The number of requests the get in hand has sent for path p.
Requests(p) == Cardinality({i \in 1..Len(get.reqs) : get.reqs[i] = p})

GetFinished == GetSettled /\ Quiescent

\* C9 as stated: get fetches path and path.sig with verify and without
\* decrypt, and exactly path in the three other cases.
C9_FetchesOneOrTwoFiles ==
    GetFinished =>
        /\ Requests(Path) = 1
        /\ Requests(SigPathOf(Path)) = IF get.verify /\ ~get.decrypt THEN 1 ELSE 0

\* C9 amended: whenever a read URL resolves (always for the caller's own
\* bucket; for another user's only if the profile registers a bucket for
\* the app), get fetches path and path.sig, once each, with verify and
\* without decrypt, and path alone, once, in the three other cases; without
\* a read URL it fetches nothing. path.sig is never requested in the three
\* other cases and no file is requested twice.
C9_FetchesOneOrTwoFilesGivenUrl ==
    /\ op = "get" =>
          /\ Requests(Path) <= 1 /\ Requests(SigPathOf(Path)) <= 1
          /\ Requests(SigPathOf(Path)) = 1 => get.verify /\ ~get.decrypt
    /\ GetFinished =>
          IF ReadUrl(get, "file") = NoUrl THEN get.reqs = <<>>
          ELSE /\ Requests(Path) = 1
               /\ Requests(SigPathOf(Path)) = IF get.verify /\ ~get.decrypt THEN 1 ELSE 0

\* A multiplayer get with verify and without decrypt, both files fetched.
C9_Witness ==
    /\ GetFinished /\ get.verify /\ ~get.decrypt /\ get.username # Null
    /\ Requests(Path) = 1 /\ Requests(SigPathOf(Path)) = 1
    /\ get.result.t = "ok" /\ get.result.v # Null

\* C10: if the callback never returns a falsy value, listFiles resolves to
\* the total number of entries of the pages received, which is the number
\* of callback invocations, and it has asked for a further page exactly
\* after the responses that carried a cursor and a non-empty page.
C10_CountsAllEntries ==
    ListDone /\ ~list.stopped /\ list.result.t = "ok" =>
        /\ Counted(list.received)
        /\ list.received = list.calls
        /\ ~(list.last.page # "null" /\ Len(list.last.entries) > 0)

\* What the code does instead: the entries of the last page are left out.
C10_CountsAllButLastPage ==
    ListDone /\ ~list.stopped /\ list.result.t = "ok" =>
        /\ Counted(list.received - Len(list.last.entries))
        /\ list.received = list.calls
        /\ ~(list.last.page # "null" /\ Len(list.last.entries) > 0)

\* The step handles a listing response (list'.last).
ListAnswered == list.st = "wait" /\ list' # list

\* C11 as stated: every listing response whose status is not 2xx makes
\* listFiles fail with that status; its body is not parsed and the
\* callback is not invoked for it.
C11_NonSuccessStatusFails ==
    [][ListAnswered /\ list'.last.status \notin 200..299 =>
          /\ list'.result = ErrStatus(EListStatus, list'.last.status)
          /\ list'.parsed = list.parsed
          /\ list'.calls = list.calls]_vars

\* C11 amended: every listing response whose status is 400 or more makes
\* listFiles fail with 'listFiles failed with HTTP status' carrying that
\* status; its body is not parsed and the callback is not invoked for it.
C11_ErrorStatusFails ==
    [][ListAnswered /\ list'.last.status >= 400 =>
          /\ list'.st = "done"
          /\ list'.result = ErrStatus(EListStatus, list'.last.status)
          /\ list'.parsed = list.parsed
          /\ list'.calls = list.calls]_vars

\* The second page is answered with 500, after a first page whose entries
\* went to the callback.
C11_Witness ==
    /\ ListDone /\ list.result = ErrStatus(EListStatus, 500)
    /\ list.sent = 2 /\ list.parsed = 1 /\ list.calls = 2
    /\ list.last.kind = "array" /\ Len(list.last.entries) = 2

\* C12: a listing response with a status below 400 whose entries field is
\* missing or null makes listFiles fail with 'Bad listFiles response: no
\* entries': the callback is not invoked for that page, no further page
\* is requested and no count is returned.
C12_MissingEntriesFails ==
    [][ListAnswered /\ list'.last.status < 400
          /\ list'.last.kind \in {"noEntries", "nullEntries"} =>
          /\ list'.st = "done"
          /\ list'.result = Err(EListNoEntries)
          /\ list'.calls = list.calls
          /\ list'.sent = list.sent]_vars

\* The second page comes without an entries field.
C12_Witness ==
    /\ ListDone /\ list.result = Err(EListNoEntries)
    /\ list.last.kind = "noEntries" /\ list.last.status = 200
    /\ list.sent = 2 /\ list.calls = 2

\* The other user's profile registers no bucket for the app.
NoBucketRegistered ==
    op = "get" /\ get.username # Null /\ ~(get.profile.hasApps /\ get.profile.entry)

\* C13 as stated: when no read URL resolves for a multiplayer read, the
\* content fetch yields null without any HTTP retrieval, and get without
\* decrypt and verify resolves to null.
C13_NoUrlYieldsNull ==
    NoBucketRegistered =>
        /\ get.reqs = <<>>
        /\ get.file.st = "done" => get.file.r = Ok(Null)
        /\ GetSettled /\ ~get.decrypt /\ ~get.verify => Returned(Null)

\* C13 amended: when no read URL resolves for a multiplayer read, the
\* content fetch is rejected with the value null without any HTTP
\* retrieval, and get without decrypt and verify is rejected with null.
C13_NoUrlRejectsWithNull ==
    NoBucketRegistered =>
        /\ get.reqs = <<>>
        /\ get.file.st = "done" => get.file.r = Err(ENullReject)
        /\ GetSettled /\ ~get.decrypt /\ ~get.verify => Failed(ENullReject)

C13_Witness ==
    /\ NoBucketRegistered /\ GetSettled
    /\ get.profile.hasApps /\ ~get.decrypt /\ ~get.verify
    /\ Failed(ENullReject) /\ get.reqs = <<>>

\* Fetch w of the get in hand was answered with a status of 300 or more
\* other than 404.
ErrorStatus(w) == op = "get" /\ get.http[w] >= 300 /\ get.http[w] # 404

\* C14 as stated: every status of 300 or more other than 404 makes get
\* fail with 'getFile failed with HTTP status' carrying that status, for
\* every option combination.
C14_ErrorStatusFailsGet ==
    \A w \in {"file", "sig"} :
        ErrorStatus(w) => get.result = ErrStatus(EHttp, get.http[w])

\* C14 amended: every status of 300 or more other than 404 makes the fetch
\* fail with 'getFile failed with HTTP status' carrying that status, and
\* makes get fail: with that failure, or, with verify and without decrypt,
\* with the rejection of another of the three joined operations that came
\* first; get never resolves.
C14_ErrorStatusFailsFetch ==
    \A w \in {"file", "sig"} :
        ErrorStatus(w) =>
            /\ get[w].r = ErrStatus(EHttp, get.http[w])
            /\ get.result.t = "err"
            /\ \/ get.result = get[w].r
               \/ /\ TwoFiles(get)
                  /\ \E x \in {"file", "sig", "addr"} \ {w} :
                        get[x].r.t = "err" /\ get.result = get[x].r

\* A 301 for the file of a get with decrypt.
C14_Witness ==
    /\ ErrorStatus("file") /\ get.http["file"] = 301
    /\ get.decrypt /\ get.verify
    /\ get.result = ErrStatus(EHttp, 301)

\* The put in hand, in sign-without-encrypt mode, had its upload to path
\* accepted and its upload to path.sig refused, and nobody else has
\* written to the bucket since.
PartialPut ==
    /\ op = "put" /\ Len(put.uploads) = 2 /\ put.status = <<"ok", "fail">>
    /\ hist.changed = "no"

\* A get with verify and without decrypt that follows such a put, the
\* bucket unchanged in between.
GetAfterPartialPut ==
    /\ GetSettled /\ get.verify /\ ~get.decrypt
    /\ get.h.put = "partial" /\ get.h.changed = "no"

\* C15: the two uploads of a put in sign-without-encrypt mode are
\* independent: when the one to path succeeds and the one to path.sig
\* fails, put reports the failure and the new plaintext stays in the
\* bucket; a later get with verify and without decrypt rejects it.
C15_PartialPutRejected ==
    /\ PartialPut =>
          /\ put.result = Err(EUpload)
          /\ store[Path] = Stored(put.uploads[1])
    /\ GetAfterPartialPut => get.result.t = "err"

\* C15 for content that is not the empty string.
C15_PartialPutRejectedNonEmpty ==
    /\ PartialPut =>
          /\ put.result = Err(EUpload)
          /\ store[Path] = Stored(put.uploads[1])
    /\ GetAfterPartialPut /\ get.h.content # <<"text", "">> => get.result.t = "err"

\* The get in hand, with verify, tried to resolve the trust anchor and
\* could not, while none of its fetches failed.
TrustAnchorMissing ==
    /\ GetSettled /\ get.verify
    /\ get.addr.st = "done" /\ get.addr.r.t = "err"
    /\ \A w \in {"file", "sig"} : get[w].r.t # "err"

\* C16: a get with verify that cannot obtain the trust anchor fails with
\* the SignatureVerificationError 'Failed to get gaia address', and that
\* error is produced under no other condition.
C16_MissingAnchorReported ==
    /\ TrustAnchorMissing => Failed(ESigNoAddress)
    /\ GetSettled /\ Failed(ESigNoAddress) => TrustAnchorMissing

\* What the code does instead: the error of getGaiaAddress itself is the
\* outcome, and 'Failed to get gaia address' is never produced.
C16_AddressErrorSurfaces ==
    /\ TrustAnchorMissing =>
          get.result = get.addr.r /\ (Failed(EGaiaAddress) \/ Failed(ETypeError))
    /\ ~Failed(ESigNoAddress)

\* The keys of the key resolution rule of put, written out: the private
\* key that signs and the public key that the content is encrypted to.
RuleSigner(sign) == IF IsExplicit(sign) THEN sign[2] ELSE AppPrivateKey

RuleRecipient(encrypt, sign) ==
    IF IsExplicit(encrypt) THEN encrypt
    ELSE IF Truthy(sign) THEN <<"pub", RuleSigner(sign)>>
    ELSE <<"pub", AppPrivateKey>>

\* C19: put signs with the explicit signing key, otherwise with the
\* caller's key; it encrypts to the explicit public key, otherwise to the
\* public key of the signing key when sign is on (an explicit one
\* included) and to the caller's public key only when sign is off.
C19_KeyResolution ==
    op = "put" =>
        LET signer == RuleSigner(put.sign)
            recipient == RuleRecipient(put.encrypt, put.sign)
            obj == put.uploads[1].body[2]
        IN  /\ Truthy(put.sign) /\ ~Truthy(put.encrypt) =>
                  put.uploads[2].body[2][2][2] = signer
            /\ Truthy(put.encrypt) /\ ~Truthy(put.sign) =>
                  obj[1] = "cipher" /\ obj[2] = recipient
            /\ Truthy(put.encrypt) /\ Truthy(put.sign) =>
                  /\ obj[1] = "signedcipher"
                  /\ obj[2][2] = signer
                  /\ obj[3] = <<"pub", signer>>
                  /\ obj[4][2][2] = recipient

\* sign = explicit key kB, encrypt = on: the stored envelope is encrypted
\* to the public key of kB.
C19_Witness ==
    /\ op = "put" /\ put.sign = <<"key", OtherKey>> /\ put.encrypt = <<"true">>
    /\ put.result.t = "ok"
    /\ store[Path].body[2][4][2][2] = <<"pub", OtherKey>>
    /\ store[Path].body[2][2][2] = OtherKey

\* C20: provided every listing request is answered, a listFiles call
\* settles (with a count or an error) whatever the hub answers and the
\* callback returns, after at most 65537 requests (callCount 0 to 65536).
C20_ListingTerminates ==
    /\ [](list.sent <= MaxCallCount + 1)
    /\ [](list.st = "done" => list.result # Pending)
    /\ (list.st = "wait") ~> (list.st = "done")

\* A listing of three pages that ends with a count.
C20_Witness ==
    /\ ListDone /\ list.hub = "any" /\ list.sent = MaxPages
    /\ list.result.t = "ok" /\ ~list.stopped

\* A request of the call in hand was answered with a failure: a fetch with
\* a status other than 200 and 404, an upload refused, a listing response
\* with an error status.
FetchFailed(w) == op = "get" /\ get.http[w] \notin {0, 200, 404}
UploadFailed == op = "put" /\ \E i \in 1..Len(put.status) : put.status[i] = "fail"
ListingFailed == list.st = "done" /\ list.last.status >= 400

\* Each target is requested at most once in a call: each file of a get,
\* each path of a put, and one listing request per iteration of the loop.
RequestedOnce ==
    /\ op = "get" => Requests(Path) <= 1 /\ Requests(SigPathOf(Path)) <= 1
    /\ op = "put" =>
          /\ Len(put.status) = Len(put.uploads)
          /\ \A i, j \in 1..Len(put.uploads) :
                put.uploads[i].path = put.uploads[j].path => i = j
    /\ list.st # "idle" => list.sent = list.callCount + 1

\* A failed request is surfaced to the caller.
FailureSurfaced ==
    /\ (\E w \in {"file", "sig"} : FetchFailed(w)) => get.result.t = "err"
    /\ UploadFailed => put.result.t = "err"
    /\ ListingFailed => list.result = ErrStatus(EListStatus, list.last.status)

\* The step starts no call and sends no request.
NoNewRequest ==
    /\ get'.reqs = get.reqs
    /\ put'.uploads = put.uploads
    /\ \A i \in 1..Len(put.status) : put'.status[i] = "sent" => put.status[i] = "sent"
    /\ list'.sent = list.sent

\* C17 as stated: no call retries: each target is requested at most once,
\* and once a request of the call has failed the call sends no new request
\* and surfaces the failure.
C17_NoRequestAfterFailure ==
    /\ []RequestedOnce
    /\ []FailureSurfaced
    /\ [][((\E w \in {"file", "sig"} : FetchFailed(w)) \/ UploadFailed \/ ListingFailed)
            /\ ops' = ops => NoNewRequest]_vars

\* C17 amended: no call retries: each target is requested at most once
\* (one listing request per loop iteration), a failed request is surfaced,
\* and once a request of the call has failed the call sends no new request,
\* except that a get with verify and without decrypt, whose two fetches are
\* started together, may still send the fetch that was not yet sent when
\* the other one failed.
C17_NoRetry ==
    /\ []RequestedOnce
    /\ []FailureSurfaced
    /\ [][((\E w \in {"file", "sig"} : FetchFailed(w)) \/ UploadFailed \/ ListingFailed)
            /\ ops' = ops =>
               \/ NoNewRequest
               \/ /\ op = "get" /\ TwoFiles(get)
                  /\ \E w \in {"file", "sig"} :
                        /\ get[w].st = "todo"
                        /\ get'.reqs = Append(get.reqs, SubPath(w))
                  /\ put' = put /\ list' = list]_vars

\* The fetch of path.sig was sent after the fetch of path had failed: both
\* were requested once and get is rejected with the failure.
C17_Witness ==
    /\ GetFinished /\ TwoFiles(get)
    /\ FetchFailed("file") /\ get.reqs = <<Path, SigPathOf(Path)>>
    /\ get.sig.r.t = "ok"
    /\ get.result = get.file.r /\ Failed(EHttp)

\* Nothing of the verifyAuthRequestAndLoadManifest call is left to run: no
\* handler is pending and no fetch is outstanding.
AuthEnded == auth.pc = "end"

\* C18: the promise of verifyAuthRequestAndLoadManifest settles: it
\* resolves to the manifest when the request is valid and the manifest
\* fetch succeeds, and it is rejected in every other case (invalid
\* request, unsigned token, failed manifest fetch); it is not left pending.
C18_AuthRequestSettles ==
    AuthEnded =>
        IF /\ auth.token.alg # "none" /\ auth.token.keys = "one"
           /\ AuthRequestChecks(auth.token) /\ auth.manifest = "ok"
        THEN auth.outer = Ok(Manifest)
        ELSE auth.outer.t = "err"

\* What the code does: the promise is settled only for a valid request
\* whose manifest is fetched and for a signed request that fails a check;
\* in the other cases it is left pending.
C18_SettlesOnlyWhenHandled ==
    AuthEnded =>
        IF auth.inner.t = "err" \/ auth.manifest = "fail"
        THEN auth.outer.t = "pending"
        ELSE IF auth.manifest = "ok" THEN auth.outer = Ok(Manifest)
        ELSE auth.outer = Err("undefined") /\ ~AuthRequestChecks(auth.token)

\* The get in hand, with decrypt, fetched stored content and, if it needs
\* the trust anchor of another user's bucket, resolved it.
DecryptGet ==
    /\ GetSettled /\ get.decrypt
    /\ get.file.st = "done" /\ get.file.r.t = "ok" /\ get.file.r.v # Null
    /\ get.verify /\ get.username # Null => get.addr.r.t = "ok"

\* C21: with decrypt, stored content that is not JSON fails with 'Failed
\* to parse encrypted content JSON' ('encrypted, signed' with verify)
\* without decryptECIES being called; JSON that decryptECIES refuses fails
\* with another error, that of decryptECIES; neither returns content.
C21_ParseAndDecryptFailuresDiffer ==
    DecryptGet =>
        /\ get.file.r.v[1] # "json" =>
              /\ Failed(IF get.verify THEN EParseSignedEncrypted ELSE EParseEncrypted)
              /\ "decryptECIES" \notin get.result.c
        /\ get.file.r.v[1] = "json" =>
              /\ ~Failed(EParseEncrypted) /\ ~Failed(EParseSignedEncrypted)
              /\ "decryptECIES" \in get.result.c =>
                    \/ Failed(EDecrypt)
                    \/ /\ get.result.t = "ok"
                       /\ \E c \in Contents \cup {ForgedContent} :
                             get.result.v = c

\* An envelope encrypted to the public key of another key: JSON that does
\* not decrypt.
C21_Witness ==
    /\ DecryptGet /\ ~get.verify
    /\ get.file.r.v[1] = "json" /\ get.file.r.v[2][1] = "cipher"
    /\ get.file.r.v[2][2] = <<"pub", OtherKey>>
    /\ Failed(EDecrypt) /\ get.result.c = {"JSON.parse", "decryptECIES"}

\* A get with verify that resolved to something other than null.
VerifiedGetReturned ==
    GetSettled /\ get.verify /\ get.result.t = "ok" /\ get.result.v # Null

\* The two checks of the gate were made (each rejects the get when it
\* fails): the address of the signer against the trust anchor, and the
\* ECDSA signature over the stored bytes.
GatePassed == {"publicKeyToAddress", "verifyECDSA"} \subseteq get.result.c

\* C22: a get with verify resolves to a non-null value only after the
\* signer's address matched the trust anchor and the ECDSA signature
\* verified; no content, the empty one included, is returned unverified.
C22_VerificationGate == VerifiedGetReturned => GatePassed

\* The gate holds for every content but the empty one.
C22_VerificationGateNonEmpty ==
    VerifiedGetReturned /\ ~Falsy(get.result.v) => GatePassed

\* The callback was called with the entries of the page in hand in the
\* order of the response, from the first one on.
SeenInOrder == list.seen = SubSeq(list.last.entries, 1, Len(list.seen))

\* A page is handed to the callback only in answer to the one request
\* outstanding, the latest one sent.
PageInTurn ==
    list'.parsed # list.parsed =>
        /\ list.st = "wait" /\ list.sent = list.parsed + 1
        /\ list'.parsed = list.parsed + 1

\* C23: after the callback returned a falsy value listFiles calls it for
\* no further entry and sends no further request; within a page the
\* callback sees the entries in the order of the response, and the pages
\* are processed in the order they were requested.
C23_StopsAtFalsyKeepsOrder ==
    /\ [](list.stopped =>
            /\ list.st = "done"
            /\ list.received - list.calls = Len(list.last.entries) - Len(list.seen))
    /\ [][list.stopped => list' = list]_vars
    /\ []SeenInOrder
    /\ [][PageInTurn]_vars

\* The callback stops at the first entry of the second page, a page of
\* two entries.
C23_Witness ==
    /\ list.stopped /\ list.sent = 2 /\ list.seen = <<"e1">>
    /\ list.last.entries = <<"e1", "e2">> /\ list.calls = 3

\* C24: the first listing request carries a null cursor, every later one
\* the cursor of the response just before it, and a request is sent only
\* when every earlier response was handled and all its entries were given
\* to the callback.
C24_CursorProtocol ==
    /\ list.st = "wait" =>
          /\ list.page = (IF list.sent = 1 THEN "null" ELSE list.last.page)
          /\ list.parsed = list.sent - 1
          /\ list.calls = list.received
          /\ list.callCount = list.sent - 1
    /\ list.st = "done" => list.sent \in {list.parsed, list.parsed + 1}

\* The third request carries the second cursor, which differs from the
\* one the second request carried.
C24_Witness ==
    /\ list.st = "wait" /\ list.sent = 3 /\ list.page = "c2"
    /\ list.last.page = "c2" /\ list.hub = "any"

\* An own read with verify that came to compare the address of the signer
\* with its trust anchor: it returned verified content, or failed on the
\* comparison.
OwnReadCompared ==
    /\ GetSettled /\ get.verify /\ get.username = Null
    /\ \/ VerifiedGetReturned /\ GatePassed
       \/ Failed(ESigAddress)

\* The address derived from the public key the stored signature names.
SignerAddress ==
    publicKeyToAddress(FieldPublicKey(JSONparse(
        IF get.decrypt THEN get.file.r.v ELSE get.sig.r.v)))

\* The comparison came out as it does against anchor.
ComparedAgainst(anchor) ==
    IF Failed(ESigAddress) THEN SignerAddress # anchor ELSE SignerAddress = anchor

ResponseEnded == auth.pc = "responded"

\* C26: the promise of verifyAuthResponse resolves for every token, to
\* true exactly when the expiration, issuance-date, signature, issuer and
\* username checks all pass; it is never rejected and never left pending,
\* also for a token with several public keys or a failed name lookup.
C26_ResponseAlwaysResolves ==
    /\ auth.response.t # "err"
    /\ ResponseEnded => auth.response = Ok(Bool(AuthResponseChecks(auth)))

\* For a token with one public key the promise resolves as the claim says,
\* a failed name lookup included.
C26_SingleKeyResolves ==
    auth.token.keys = "one" =>
        /\ auth.response.t # "err"
        /\ ResponseEnded => auth.response = Ok(Bool(AuthResponseChecks(auth)))

====
